---- MODULE Spec2Model ----
(***************************************************************************)
(* Job-Application-Agent: the two Streamlit scripts app2.py and app3.py.   *)
(* A script run is triggered by every widget interaction; the run started  *)
(* by the "Run AI Job Agent" button extracts the two uploads, builds the   *)
(* generation client and issues the prompt stages one after another.       *)
(*                                                                         *)
(* Text is a sequence of one-character strings, so that strip(),           *)
(* startswith(), endswith() and lower() are computed, not assumed.         *)
(***************************************************************************)
EXTENDS Integers, Sequences, FiniteSets, TLC

VARIABLES
    variant,        \* "app2" or "app3": which script the server runs
    resume_file,    \* st.file_uploader value (NoFile or an uploaded file)
    job_desc_file,  \* st.file_uploader value
    api_key,        \* app2: the st.text_input value ("" shown as NoKey)
    secret,         \* app3: st.secrets["openai"]["api_key"], NoKey when not loadable
    environ,        \* os.environ["OPENAI_API_KEY"] of the server process
    llm_key,        \* the credential the run's ChatOpenAI client holds
    pc,             \* "ready", a stage name (the next stage to call), or "done"
    run,            \* number of button clicks so far
    resume_text,    \* script locals of the current run
    job_desc_text,
    resume_info,
    job_requirements,
    gap_analysis,
    calls,          \* the generation calls issued by the current run, in order
    out,            \* the elements the current run has rendered, in order
    tmp_count,      \* temporary .docx files present on disk
    s_key,          \* concurrent sessions: each session's api_key widget value
    s_pc,           \* concurrent sessions: each session's position in its script run
    s_llm           \* concurrent sessions: the credential each session's client holds

vars == <<variant, resume_file, job_desc_file, api_key, secret, environ, llm_key,
          pc, run, resume_text, job_desc_text, resume_info, job_requirements,
          gap_analysis, calls, out, tmp_count, s_key, s_pc, s_llm>>

\* ------------------------------------------------------------------ bounds

\* Button clicks explored in one behaviour.
MaxRuns == 2

\* ------------------------------------------------------------------ text

Whitespace == {" ", "\n", "\t"}

RECURSIVE lstrip(_)
lstrip(t) ==
    IF t # <<>> /\ Head(t) \in Whitespace THEN lstrip(Tail(t)) ELSE t

RECURSIVE rstrip(_)
rstrip(t) ==
    IF t # <<>> /\ t[Len(t)] \in Whitespace
    THEN rstrip(SubSeq(t, 1, Len(t) - 1))
    ELSE t

\* str.strip()
strip(t) == rstrip(lstrip(t))

\* str.startswith(p)
startswith(t, p) == Len(t) >= Len(p) /\ SubSeq(t, 1, Len(p)) = p

\* str.endswith(p)
endswith(t, p) ==
    Len(t) >= Len(p) /\ SubSeq(t, Len(t) - Len(p) + 1, Len(t)) = p

LowerChar(c) ==
    CASE c = "T" -> "t"
      [] c = "X" -> "x"
      [] c = "P" -> "p"
      [] c = "D" -> "d"
      [] c = "F" -> "f"
      [] OTHER -> c

\* str.lower()
lower(t) == [i \in 1..Len(t) |-> LowerChar(t[i])]

\* "sep".join(parts)
RECURSIVE join(_, _)
join(sep, parts) ==
    IF parts = <<>> THEN <<>>
    ELSE IF Len(parts) = 1 THEN parts[1]
    ELSE parts[1] \o sep \o join(sep, Tail(parts))

\* The "ERROR:" marker of app3, and the text of f"ERROR: {e}".
ErrorPrefix == <<"E", "R", "R", "O", "R", ":">>
ExcText == <<"e">>

\* A script local that has not been assigned.
Unset == <<"<unset>">>

\* ------------------------------------------------------------------ uploads

NoFile == [name |-> <<>>, kind |-> "none", text |-> <<>>, parts |-> <<>>]
NoKey == ""

Names == {
    <<"a", ".", "t", "x", "t">>,
    <<"a", ".", "T", "X", "T">>,
    <<"a", ".", "p", "d", "f">>,
    <<"a", ".", "m", "d">>,
    <<"a", ".", "d", "o", "c", "x">>,
    <<"a", ".", "r", "t", "f">> }

\* What the uploaded bytes are.  kind "utf8": bytes that decode as UTF-8 to
\* `text`.  kind "pdf": a PDF whose pages extract to `parts` (none = TRUE for a
\* page whose extract_text() is None).  kind "docx": a document whose paragraph
\* texts are `parts`.  kind "bad": bytes no decoder or parser accepts.  PDF and
\* docx bytes are binary: they do not decode as UTF-8.
Page(t) == [none |-> FALSE, text |-> t]
NonePage == [none |-> TRUE, text |-> <<>>]

Bodies == {
    [kind |-> "utf8", text |-> <<" ", "\n">>, parts |-> <<>>],
    [kind |-> "utf8", text |-> <<"x", " ">>, parts |-> <<>>],
    [kind |-> "utf8", text |-> ErrorPrefix \o <<"x">>, parts |-> <<>>],
    [kind |-> "bad", text |-> <<>>, parts |-> <<>>],
    [kind |-> "pdf", text |-> <<>>, parts |-> <<Page(<<"x">>), NonePage>>],
    [kind |-> "pdf", text |-> <<>>, parts |-> <<NonePage>>],
    [kind |-> "docx", text |-> <<>>, parts |-> <<Page(<<"x">>), Page(<<"y">>)>>],
    [kind |-> "docx", text |-> <<>>, parts |-> <<Page(<<" ">>)>>] }

\* The uploads explored: text and unreadable bytes under every name, a PDF or
\* a docx document under its own extension (under another name it fails to
\* decode or parse exactly as the unreadable bytes do).
Files == { f \in { [name |-> n, kind |-> b.kind, text |-> b.text, parts |-> b.parts] :
                     n \in Names, b \in Bodies } :
             \/ f.kind \in {"utf8", "bad"}
             \/ f.kind = "pdf" /\ f.name = <<"a", ".", "p", "d", "f">>
             \/ f.kind = "docx" /\ f.name = <<"a", ".", "d", "o", "c", "x">> }

Keys == {"k1", "k2"}

\* ------------------------------------------------------------------ extraction

\* The outcome of a call: a returned text, or a raised exception.
Returned(t) == [raised |-> FALSE, text |-> t]
Raised == [raised |-> TRUE, text |-> <<>>]

\* file.read().decode("utf-8")
decode_utf8(file) ==
    IF file.kind = "utf8" THEN Returned(file.text) ELSE Raised

\* text = ""; for page in reader.pages: text += page.extract_text() or ""
RECURSIVE pages_text(_)
pages_text(pages) ==
    IF pages = <<>> THEN <<>>
    ELSE (IF pages[1].none THEN <<>> ELSE pages[1].text) \o pages_text(Tail(pages))

\* PyPDF2.PdfReader(file) and the page loop
pdf_text(file) ==
    IF file.kind = "pdf" THEN Returned(pages_text(file.parts)) ELSE Raised

\* "\n".join([para.text for para in doc_file.paragraphs])
docx_text(file) ==
    IF file.kind = "docx"
    THEN Returned(join(<<"\n">>, [i \in 1..Len(file.parts) |-> file.parts[i].text]))
    ELSE Raised

get_file_type(file) ==
    LET filename == lower(file.name) IN
    IF endswith(filename, <<".", "t", "x", "t">>) THEN "txt"
    ELSE IF endswith(filename, <<".", "p", "d", "f">>) THEN "pdf"
    ELSE IF endswith(filename, <<".", "m", "d">>) THEN "md"
    ELSE IF endswith(filename, <<".", "d", "o", "c", "x">>) THEN "docx"
    ELSE ""

\* app2 extract_text, docx branch.  write_ok: whether tmp.write(file.read())
\* succeeds.  left: temporary files the call leaves on disk.  The file is made
\* with delete=False; os.remove is reached only when docx.Document returns.
extract_docx2(file, write_ok) ==
    IF ~write_ok THEN [raised |-> TRUE, text |-> <<>>, left |-> 1]
    ELSE IF docx_text(file).raised THEN [raised |-> TRUE, text |-> <<>>, left |-> 1]
    ELSE [raised |-> FALSE, text |-> docx_text(file).text, left |-> 0]

\* app2 extract_text: exceptions propagate to the caller.
extract_text2(file, file_type, write_ok) ==
    IF file_type \in {"txt", "md"}
    THEN [raised |-> decode_utf8(file).raised, text |-> decode_utf8(file).text, left |-> 0]
    ELSE IF file_type = "pdf"
    THEN [raised |-> pdf_text(file).raised, text |-> pdf_text(file).text, left |-> 0]
    ELSE IF file_type = "docx"
    THEN extract_docx2(file, write_ok)
    ELSE [raised |-> FALSE, text |-> <<>>, left |-> 0]

\* app3 extract_text, the body of its try block.
extract_try3(file, file_type) ==
    IF file_type = "txt" THEN decode_utf8(file)
    ELSE IF file_type = "pdf" THEN pdf_text(file)
    ELSE IF file_type = "md" THEN decode_utf8(file)
    ELSE IF file_type = "docx" THEN docx_text(file)
    ELSE Returned(<<>>)

\* An except clause that swallows the exception and returns empty text.
except_result3_silent(e) == <<>>

\* app3 extract_text, the except clause: return f"ERROR: {e}"
except_result3(e) == ErrorPrefix \o <<" ">> \o e

\* app3 extract_text: never raises, returns a text.
extract_text3(file, file_type) ==
    IF extract_try3(file, file_type).raised
    THEN except_result3(ExcText)
    ELSE extract_try3(file, file_type).text

\* The blank test without strip(): `not text`.
is_blank_no_strip(t) == t = <<>>

\* not text.strip()
is_blank(t) == strip(t) = <<>>

\* ------------------------------------------------------------------ rendering

\* One rendered element: st.warning / st.error / st.subheader / st.code /
\* st.write / st.download_button / st.success, or the runtime's display of an
\* exception the script did not catch ("exception").
El(el, label, data) == [el |-> el, label |-> label, data |-> data]

Uncaught == El("exception", "uncaught exception", ExcText)

Stages2 == <<"resume-analysis", "job-analysis", "gap-analysis", "resume-rewrite", "cover-letter">>
Stages3 == <<"resume-analysis", "job-analysis", "gap-analysis", "cover-letter">>

\* The order in which the script of variant v reaches the stages.
stage_order(v) == IF v = "app2" THEN Stages2 ELSE Stages3

\* The position the script reaches after stage `stage` has rendered its result.
next_pc(v, stage) ==
    LET order == stage_order(v)
        i == CHOOSE k \in 1..Len(order) : order[k] = stage
    IN IF i = Len(order) THEN "done" ELSE order[i + 1]

\* The opaque text a successful generation call of `stage` returns.
generated(stage) == <<"generated", stage>>

\* What each stage renders once its call has returned `text`.
render_stage(stage, text) ==
    CASE stage = "resume-analysis" ->
           <<El("subheader", "Resume Information Extracted", <<>>),
             El("code", "Resume Information Extracted", text)>>
      [] stage = "job-analysis" ->
           <<El("subheader", "Job Requirements Extracted", <<>>),
             El("code", "Job Requirements Extracted", text)>>
      [] stage = "gap-analysis" ->
           <<El("subheader", "Gap Analysis", <<>>),
             El("code", "Gap Analysis", text)>>
      [] stage = "resume-rewrite" ->
           <<El("subheader", "Modified Resume (AI-Tailored for Job Description)", <<>>),
             El("code", "Modified Resume (AI-Tailored for Job Description)", text),
             El("download", "Download Modified Resume", text)>>
      [] stage = "cover-letter" ->
           <<El("subheader", "Tailored Cover Letter", <<>>),
             El("write", "Tailored Cover Letter", text),
             El("download", "Download Cover Letter", text),
             El("success", "Done!", <<>>)>>

\* app3: the st.error message of each stage's except clause.
llm_error3(stage) ==
    CASE stage = "resume-analysis" -> "LLM error while analyzing resume"
      [] stage = "job-analysis" -> "LLM error while analyzing job description"
      [] stage = "gap-analysis" -> "LLM error during gap analysis"
      [] stage = "cover-letter" -> "LLM error while generating cover letter"
      [] OTHER -> "LLM error"

\* A failure handler that clears the page before it shows the error.
render_failure_clearing(v, stage, shown) ==
    IF v = "app3"
    THEN <<El("error", llm_error3(stage), ExcText)>>
    ELSE <<Uncaught>>

\* The output after the call of `stage` has raised: app3 catches it and adds
\* st.error to what is already rendered; app2 has no handler, the exception
\* leaves the script and the runtime adds its display of it.
render_failure(v, stage, shown) ==
    IF v = "app3"
    THEN Append(shown, El("error", llm_error3(stage), ExcText))
    ELSE Append(shown, Uncaught)

\* A failure handler without st.stop(): the script goes on to the next stage.
pc_after_failure_no_stop(v, stage) == next_pc(v, stage)

\* Where the script is after the call of `stage` has raised: st.stop() in
\* app3 (the last stage is followed by nothing), the uncaught exception in app2.
pc_after_failure(v, stage) == "done"

\* gap_chain.run given its two inputs the wrong way round.
gap_inputs_swapped(ri, jr) == [resume_info |-> jr, job_requirements |-> ri]

\* The input variables each chain.run call is given.
resume_inputs(rt) == [resume |-> rt]
job_inputs(jt) == [job_desc |-> jt]
gap_inputs(ri, jr) == [resume_info |-> ri, job_requirements |-> jr]
rewrite_inputs(rt, jt, ga) == [resume |-> rt, job_desc |-> jt, gap_analysis |-> ga]
cover_inputs(ri, jr, ga) == [resume_info |-> ri, job_requirements |-> jr, gap_analysis |-> ga]

\* The record of one chain.run call.
Call(stage, inputs, ok) ==
    [stage |-> stage, vars |-> inputs, ok |-> ok,
     result |-> IF ok THEN generated(stage) ELSE <<>>]

\* ------------------------------------------------------------------ the button block

\* The guard of app2 line 61 without its `not api_key` test.
missing_input2_no_key_test(rf, jf, key) == rf = NoFile \/ jf = NoFile

\* app2 line 61
missing_input2(rf, jf, key) == rf = NoFile \/ jf = NoFile \/ key = NoKey

\* app3 line 82
missing_input3(rf, jf) == rf = NoFile \/ jf = NoFile

\* app3 lines 92 and 95
is_error_text(t) == startswith(t, ErrorPrefix)

\* The outcome of the button block up to the first stage.
Stopped(elements, rt, jt, left) ==
    [pc |-> "done", out |-> elements, resume_text |-> rt, job_desc_text |-> jt,
     llm_key |-> NoKey, left |-> left]
Started(rt, jt, key, left) ==
    [pc |-> "resume-analysis", out |-> <<>>, resume_text |-> rt, job_desc_text |-> jt,
     llm_key |-> key, left |-> left]

\* app2 lines 60-175.  env: os.environ["OPENAI_API_KEY"] as line 57 left it.
button_block2(rf, jf, key, env, w1, w2) ==
    IF missing_input2(rf, jf, key)
    THEN Stopped(<<El("warning", "Please upload both files and provide your OpenAI API key.", <<>>)>>,
                 Unset, Unset, 0)
    ELSE
    LET r == extract_text2(rf, get_file_type(rf), w1) IN
    IF r.raised
    THEN Stopped(<<El("error", "Error reading resume", ExcText)>>, Unset, Unset, r.left)
    ELSE
    LET j == extract_text2(jf, get_file_type(jf), w2) IN
    IF j.raised
    THEN Stopped(<<El("error", "Error reading job description", ExcText)>>,
                 r.text, Unset, r.left + j.left)
    ELSE IF is_blank(r.text) \/ is_blank(j.text)
    THEN Stopped(<<El("error", "One or both files are empty or could not be read.", <<>>)>>,
                 r.text, j.text, r.left + j.left)
    ELSE IF env = NoKey
    THEN Stopped(<<Uncaught>>, r.text, j.text, r.left + j.left)
    ELSE Started(r.text, j.text, env, r.left + j.left)

\* app3 lines 81-167.  sec: the secret, NoKey when st.secrets cannot give it.
button_block3(rf, jf, sec) ==
    IF missing_input3(rf, jf)
    THEN Stopped(<<El("warning", "Please upload both files.", <<>>)>>, Unset, Unset, 0)
    ELSE
    LET rt == extract_text3(rf, get_file_type(rf))
        jt == extract_text3(jf, get_file_type(jf))
    IN
    IF is_error_text(rt)
    THEN Stopped(<<El("error", "Error reading resume", rt)>>, rt, jt, 0)
    ELSE IF is_error_text(jt)
    THEN Stopped(<<El("error", "Error reading job description", jt)>>, rt, jt, 0)
    ELSE IF is_blank(rt) \/ is_blank(jt)
    THEN Stopped(<<El("error", "One or both files are empty or could not be read.", <<>>)>>,
                 rt, jt, 0)
    ELSE IF sec = NoKey
    THEN Stopped(<<El("error", "Failed to load OpenAI API key from secrets", ExcText)>>,
                 rt, jt, 0)
    ELSE Started(rt, jt, sec, 0)

\* app2 lines 55-57, executed by every script run.
set_environ(v, key, env) == IF v = "app2" /\ key # NoKey THEN key ELSE env

\* ------------------------------------------------------------------ one session

Sessions == {"s1", "s2"}
Idle == {"ready", "done"}

NoSessions ==
    /\ s_key = [s \in Sessions |-> NoKey]
    /\ s_pc = [s \in Sessions |-> "idle"]
    /\ s_llm = [s \in Sessions |-> NoKey]

Init ==
    /\ variant \in {"app2", "app3"}
    /\ resume_file = NoFile
    /\ job_desc_file = NoFile
    /\ api_key = NoKey
    /\ secret \in (IF variant = "app3" THEN {NoKey, "sk"} ELSE {NoKey})
    /\ environ = NoKey
    /\ llm_key = NoKey
    /\ pc = "ready"
    /\ run = 0
    /\ resume_text = Unset
    /\ job_desc_text = Unset
    /\ resume_info = Unset
    /\ job_requirements = Unset
    /\ gap_analysis = Unset
    /\ calls = <<>>
    /\ out = <<>>
    /\ tmp_count = 0
    /\ NoSessions

\* A script run in which st.button returns False: the form is drawn again,
\* nothing of the previous run stays on the page.
Rerun ==
    /\ pc' = "ready"
    /\ out' = <<>>
    /\ calls' = <<>>
    /\ llm_key' = NoKey
    /\ resume_text' = Unset
    /\ job_desc_text' = Unset
    /\ resume_info' = Unset
    /\ job_requirements' = Unset
    /\ gap_analysis' = Unset
    /\ UNCHANGED <<variant, secret, run, tmp_count, s_key, s_pc, s_llm>>

UploadResume ==
    /\ pc \in Idle
    /\ \E f \in (Files \cup {NoFile}) \ {resume_file} : resume_file' = f
    /\ environ' = set_environ(variant, api_key, environ)
    /\ Rerun
    /\ UNCHANGED <<job_desc_file, api_key>>

UploadJobDesc ==
    /\ pc \in Idle
    /\ \E f \in (Files \cup {NoFile}) \ {job_desc_file} : job_desc_file' = f
    /\ environ' = set_environ(variant, api_key, environ)
    /\ Rerun
    /\ UNCHANGED <<resume_file, api_key>>

EnterApiKey ==
    /\ variant = "app2"
    /\ pc \in Idle
    /\ \E k \in (Keys \cup {NoKey}) \ {api_key} :
         /\ api_key' = k
         /\ environ' = set_environ(variant, k, environ)
    /\ Rerun
    /\ UNCHANGED <<resume_file, job_desc_file>>

\* The script run in which st.button returns True, up to the first stage.
Begin(b) ==
    /\ pc' = b.pc
    /\ out' = b.out
    /\ resume_text' = b.resume_text
    /\ job_desc_text' = b.job_desc_text
    /\ llm_key' = b.llm_key
    /\ tmp_count' = tmp_count + b.left
    /\ run' = run + 1
    /\ calls' = <<>>
    /\ resume_info' = Unset
    /\ job_requirements' = Unset
    /\ gap_analysis' = Unset
    /\ UNCHANGED <<variant, resume_file, job_desc_file, api_key, secret, s_key, s_pc, s_llm>>

Click2 ==
    /\ variant = "app2"
    /\ pc \in Idle
    /\ run < MaxRuns
    /\ environ' = set_environ(variant, api_key, environ)
    /\ \E w1, w2 \in BOOLEAN :
         Begin(button_block2(resume_file, job_desc_file, api_key, environ', w1, w2))

Click3 ==
    /\ variant = "app3"
    /\ pc \in Idle
    /\ run < MaxRuns
    /\ environ' = set_environ(variant, api_key, environ)
    /\ Begin(button_block3(resume_file, job_desc_file, secret))

\* One stage: the chain.run call with `inputs`, then either the rendering of
\* its result or the handling of its exception.
Stage(stage, inputs, ok) ==
    /\ pc = stage
    /\ calls' = Append(calls, Call(stage, inputs, ok))
    /\ IF ok
       THEN /\ out' = out \o render_stage(stage, generated(stage))
            /\ pc' = next_pc(variant, stage)
       ELSE /\ out' = render_failure(variant, stage, out)
            /\ pc' = pc_after_failure(variant, stage)
    /\ UNCHANGED <<variant, resume_file, job_desc_file, api_key, secret, environ,
                   llm_key, run, resume_text, job_desc_text, tmp_count,
                   s_key, s_pc, s_llm>>

ResumeAnalysis ==
    \E ok \in BOOLEAN :
      /\ Stage("resume-analysis", resume_inputs(resume_text), ok)
      /\ resume_info' = IF ok THEN generated("resume-analysis") ELSE resume_info
      /\ UNCHANGED <<job_requirements, gap_analysis>>

JobAnalysis ==
    \E ok \in BOOLEAN :
      /\ Stage("job-analysis", job_inputs(job_desc_text), ok)
      /\ job_requirements' = IF ok THEN generated("job-analysis") ELSE job_requirements
      /\ UNCHANGED <<resume_info, gap_analysis>>

GapAnalysis ==
    \E ok \in BOOLEAN :
      /\ Stage("gap-analysis", gap_inputs(resume_info, job_requirements), ok)
      /\ gap_analysis' = IF ok THEN generated("gap-analysis") ELSE gap_analysis
      /\ UNCHANGED <<resume_info, job_requirements>>

ResumeRewrite ==
    \E ok \in BOOLEAN :
      /\ Stage("resume-rewrite", rewrite_inputs(resume_text, job_desc_text, gap_analysis), ok)
      /\ UNCHANGED <<resume_info, job_requirements, gap_analysis>>

CoverLetter ==
    \E ok \in BOOLEAN :
      /\ Stage("cover-letter", cover_inputs(resume_info, job_requirements, gap_analysis), ok)
      /\ UNCHANGED <<resume_info, job_requirements, gap_analysis>>

Next ==
    \/ UploadResume
    \/ UploadJobDesc
    \/ EnterApiKey
    \/ Click2
    \/ Click3
    \/ ResumeAnalysis
    \/ JobAnalysis
    \/ GapAnalysis
    \/ ResumeRewrite
    \/ CoverLetter

Spec == Init /\ [][Next]_vars

\* ------------------------------------------------------------------ concurrent sessions
\* Several browser sessions of one server process.  Each session has its own
\* widget values and its own script thread; os.environ and st.secrets belong
\* to the process.  Both uploads of every session are present and readable,
\* so a run stops before the client is built only for a missing credential.
\* A session's script run is cut where another session's thread can run in
\* between: after the top of the script (app2 lines 55-57), after the button
\* guard and the extraction, and after the client is built.

OneSessionIdle ==
    /\ resume_file = NoFile
    /\ job_desc_file = NoFile
    /\ api_key = NoKey
    /\ llm_key = NoKey
    /\ pc = "ready"
    /\ run = 0
    /\ resume_text = Unset
    /\ job_desc_text = Unset
    /\ resume_info = Unset
    /\ job_requirements = Unset
    /\ gap_analysis = Unset
    /\ calls = <<>>
    /\ out = <<>>
    /\ tmp_count = 0

InitSessions ==
    /\ variant \in {"app2", "app3"}
    /\ secret \in (IF variant = "app3" THEN {NoKey, "sk"} ELSE {NoKey})
    /\ environ = NoKey
    /\ OneSessionIdle
    /\ NoSessions

OneSessionUnchanged ==
    UNCHANGED <<variant, secret, resume_file, job_desc_file, api_key, llm_key, pc, run,
                resume_text, job_desc_text, resume_info, job_requirements,
                gap_analysis, calls, out, tmp_count>>

\* app2 line 55: the user of session s types another key; the script reruns.
S_EnterKey(s) ==
    /\ variant = "app2"
    /\ s_pc[s] = "idle"
    /\ \E k \in (Keys \cup {NoKey}) \ {s_key[s]} : s_key' = [s_key EXCEPT ![s] = k]
    /\ s_pc' = [s_pc EXCEPT ![s] = "rerun"]
    /\ s_llm' = [s_llm EXCEPT ![s] = NoKey]
    /\ UNCHANGED environ
    /\ OneSessionUnchanged

\* The user of session s presses the button; the script reruns.
S_Click(s) ==
    /\ s_pc[s] = "idle"
    /\ s_pc' = [s_pc EXCEPT ![s] = "clicked"]
    /\ s_llm' = [s_llm EXCEPT ![s] = NoKey]
    /\ UNCHANGED <<s_key, environ>>
    /\ OneSessionUnchanged

\* The top of the script, app2 lines 55-57 (app3 has no such lines).
S_Top(s) ==
    /\ s_pc[s] \in {"rerun", "clicked"}
    /\ environ' = set_environ(variant, s_key[s], environ)
    /\ s_pc' = [s_pc EXCEPT ![s] = IF s_pc[s] = "clicked" THEN "guard" ELSE "idle"]
    /\ UNCHANGED <<s_key, s_llm>>
    /\ OneSessionUnchanged

\* The button guard and the extraction: app2 lines 60-82, app3 lines 81-100.
S_Guard(s) ==
    /\ s_pc[s] = "guard"
    /\ s_pc' = [s_pc EXCEPT ![s] =
                  IF variant = "app2" /\ s_key[s] = NoKey THEN "idle" ELSE "setup"]
    /\ UNCHANGED <<s_key, s_llm, environ>>
    /\ OneSessionUnchanged

\* The credential ChatOpenAI is constructed with: app2 line 144 passes none and
\* the client reads the process environment; app3 line 144 passes the secret.
client_key(v, env, sec) == IF v = "app2" THEN env ELSE sec

\* LLM Setup: app2 line 144, app3 lines 142-147.
S_Setup(s) ==
    /\ s_pc[s] = "setup"
    /\ LET k == client_key(variant, environ, secret) IN
         /\ s_llm' = [s_llm EXCEPT ![s] = k]
         /\ s_pc' = [s_pc EXCEPT ![s] = IF k = NoKey THEN "idle" ELSE "pipeline"]
    /\ UNCHANGED <<s_key, environ>>
    /\ OneSessionUnchanged

\* The stages run with the client built and the script run ends.
S_Pipeline(s) ==
    /\ s_pc[s] = "pipeline"
    /\ s_pc' = [s_pc EXCEPT ![s] = "idle"]
    /\ UNCHANGED <<s_key, s_llm, environ>>
    /\ OneSessionUnchanged

NextSessions ==
    \E s \in Sessions :
      \/ S_EnterKey(s)
      \/ S_Click(s)
      \/ S_Top(s)
      \/ S_Guard(s)
      \/ S_Setup(s)
      \/ S_Pipeline(s)

SpecSessions == InitSessions /\ [][NextSessions]_vars

\* ------------------------------------------------------------------ properties

\* The elements of `shown` of the given kinds.
Shown(kinds) == { n \in 1..Len(out) : out[n].el \in kinds }

ErrorKinds == {"warning", "error", "exception"}

\* The stage a result element belongs to, by its label.
StageOfLabel(label) ==
    CASE label = "Resume Information Extracted" -> "resume-analysis"
      [] label = "Job Requirements Extracted" -> "job-analysis"
      [] label = "Gap Analysis" -> "gap-analysis"
      [] label = "Modified Resume (AI-Tailored for Job Description)" -> "resume-rewrite"
      [] label = "Download Modified Resume" -> "resume-rewrite"
      [] label = "Tailored Cover Letter" -> "cover-letter"
      [] label = "Download Cover Letter" -> "cover-letter"
      [] label = "Done!" -> "cover-letter"
      [] OTHER -> "none"

\* The stage an error message names.
StageOfError(label) ==
    CASE label = "LLM error while analyzing resume" -> "resume-analysis"
      [] label = "LLM error while analyzing job description" -> "job-analysis"
      [] label = "LLM error during gap analysis" -> "gap-analysis"
      [] label = "LLM error while rewriting resume" -> "resume-rewrite"
      [] label = "LLM error while generating cover letter" -> "cover-letter"
      [] OTHER -> "none"

\* The documented stage order of each variant, and a stage's place in it.
DocumentedOrder ==
    IF variant = "app2"
    THEN <<"resume-analysis", "job-analysis", "gap-analysis", "resume-rewrite", "cover-letter">>
    ELSE <<"resume-analysis", "job-analysis", "gap-analysis", "cover-letter">>

Place(stage) ==
    IF \E k \in 1..Len(DocumentedOrder) : DocumentedOrder[k] = stage
    THEN CHOOSE k \in 1..Len(DocumentedOrder) : DocumentedOrder[k] = stage
    ELSE 0

\* No result element of the stage at place k or of a later stage is rendered.
NothingFrom(k) ==
    \A n \in Shown({"subheader", "code", "write", "download", "success"}) :
        Place(StageOfLabel(out[n].label)) < k

CredentialAbsent == IF variant = "app2" THEN api_key = NoKey ELSE secret = NoKey

\* The button was pressed with both uploads and (app2) the key present, so
\* the run went on to extract the uploads.
ExtractionReached ==
    /\ pc # "ready"
    /\ resume_file # NoFile
    /\ job_desc_file # NoFile
    /\ variant = "app2" => api_key # NoKey

\* The bytes of upload f are not what its format tag needs: they do not decode
\* (txt, md) or do not parse (pdf, docx).
Unreadable(f) ==
    \/ get_file_type(f) \in {"txt", "md"} /\ f.kind # "utf8"
    \/ get_file_type(f) = "pdf" /\ f.kind # "pdf"
    \/ get_file_type(f) = "docx" /\ f.kind # "docx"

\* C1: if the generation call of stage k fails, no output of stage k or of a
\* later stage is produced (no later call, no later panel or download, no
\* "Done" message) and the error shown to the user identifies stage k.
C1_FailedStageIsolatedAndNamed ==
    \A i \in 1..Len(calls) :
        ~calls[i].ok =>
            /\ i = Len(calls)
            /\ pc = "done"
            /\ NothingFrom(Place(calls[i].stage))
            /\ \E n \in Shown(ErrorKinds) : StageOfError(out[n].label) = calls[i].stage

\* C2: a click with the resume absent, or the job description absent, or the
\* credential absent ends the run with a warning or an error and with no
\* generation call made.
C2_MissingInputStopsRun ==
    (/\ pc # "ready"
     /\ (resume_file = NoFile \/ job_desc_file = NoFile \/ CredentialAbsent))
    => /\ pc = "done"
       /\ calls = <<>>
       /\ Shown({"warning", "error"}) # {}

\* C2 witness: app3, both files uploaded and readable, only the secret absent.
C2_Witness ==
    /\ variant = "app3"
    /\ pc = "done"
    /\ resume_file # NoFile
    /\ job_desc_file # NoFile
    /\ secret = NoKey
    /\ Len(out) = 1
    /\ out[1].label = "Failed to load OpenAI API key from secrets"

\* C3: in a run where every generation call succeeds the stages are called
\* once each in the documented order, and each call's input variables are
\* exactly the documented bindings; gap-analysis never gets raw document text.
C3_OrderAndBindings ==
    (/\ pc = "done"
     /\ calls # <<>>
     /\ \A i \in 1..Len(calls) : calls[i].ok)
    => /\ [i \in 1..Len(calls) |-> calls[i].stage] = DocumentedOrder
       /\ calls[1].vars = [resume |-> resume_text]
       /\ calls[2].vars = [job_desc |-> job_desc_text]
       /\ calls[3].vars = [resume_info |-> calls[1].result,
                           job_requirements |-> calls[2].result]
       /\ {calls[3].vars.resume_info, calls[3].vars.job_requirements}
              \cap {resume_text, job_desc_text} = {}
       /\ variant = "app2" =>
              calls[4].vars = [resume |-> resume_text, job_desc |-> job_desc_text,
                               gap_analysis |-> calls[3].result]
       /\ calls[Len(calls)].vars =
              [resume_info |-> calls[1].result, job_requirements |-> calls[2].result,
               gap_analysis |-> calls[3].result]

\* C3 witness: a complete run of app2, five successful calls.
C3_Witness ==
    /\ variant = "app2"
    /\ pc = "done"
    /\ Len(calls) = 5
    /\ \A i \in 1..5 : calls[i].ok
    /\ resume_text # job_desc_text

\* C4: no temporary file of app2's docx extraction is on disk once
\* extract_text has returned or raised.
C4_TempFileRemoved == tmp_count = 0

\* C5 as stated: after a failed stage the user sees a single stage error and
\* no result panel or download of an earlier stage of that run.
C5_EarlierResultsDiscarded ==
    \A i \in 1..Len(calls) :
        ~calls[i].ok => Len(out) = 1 /\ out[1].el \in ErrorKinds

\* C5 as amended: a failed stage ends the run with exactly one error, shown
\* last; the results of the stages that completed before it stay on the page
\* above the error, and nothing of the failed or of a later stage is shown.
C5_EarlierResultsStayVisible ==
    \A i \in 1..Len(calls) :
        ~calls[i].ok =>
            /\ i = Len(calls)
            /\ pc = "done"
            /\ Shown(ErrorKinds) = {Len(out)}
            /\ NothingFrom(i)
            /\ \A j \in 1..(i - 1) :
                 /\ \E n \in Shown({"code", "write"}) :
                      /\ StageOfLabel(out[n].label) = calls[j].stage
                      /\ out[n].data = calls[j].result
                 /\ calls[j].stage = "resume-rewrite" =>
                      \E n \in Shown({"download"}) : out[n].data = calls[j].result

\* C5 witness: app2, the cover-letter call fails after four stages rendered.
C5_Witness ==
    /\ variant = "app2"
    /\ pc = "done"
    /\ Len(calls) = 5
    /\ ~calls[5].ok
    /\ Len(out) > 1

\* C6: for each of the four format tags, bytes that cannot be decoded or
\* parsed end the run with the read error of that file (the first unreadable
\* upload is the one reported); they are never taken for an empty document.
C6_UnreadableIsReadError ==
    ExtractionReached =>
        /\ Unreadable(resume_file) =>
              /\ pc = "done"
              /\ calls = <<>>
              /\ Len(out) = 1
              /\ out[1].el = "error"
              /\ out[1].label = "Error reading resume"
        /\ (Unreadable(job_desc_file) /\ out[1].label # "Error reading resume") =>
              /\ pc = "done"
              /\ calls = <<>>
              /\ Len(out) = 1
              /\ out[1].el = "error"
              /\ out[1].label = "Error reading job description"

\* C6 witness: app3, a .docx upload of unparsable bytes, reported as a read
\* error of the job description after the resume was read.
C6_Witness ==
    /\ variant = "app3"
    /\ ExtractionReached
    /\ get_file_type(job_desc_file) = "docx"
    /\ job_desc_file.kind = "bad"
    /\ out = <<El("error", "Error reading job description", except_result3(ExcText))>>

\* C7: the client a session's run uses holds the credential supplied for that
\* run (app2: the session's own key field; app3: the secret), whatever the
\* other sessions do.
C7_ClientHoldsOwnCredential ==
    \A s \in Sessions :
        s_pc[s] = "pipeline" =>
            s_llm[s] = (IF variant = "app2" THEN s_key[s] ELSE secret)

\* C8: within one run no stage is called twice, at most 5 (app2) or 4 (app3)
\* calls are made, and once an error of any kind is shown the run makes no
\* further generation call.
C8_NoRetryNoCallAfterError ==
    /\ [](/\ \A i, j \in 1..Len(calls) : calls[i].stage = calls[j].stage => i = j
          /\ Len(calls) <= (IF variant = "app2" THEN 5 ELSE 4))
    /\ [][(Shown(ErrorKinds) # {} /\ run' = run) => Len(calls') <= Len(calls)]_vars

\* C8 witness: app3, the last stage's call fails (its handler has no
\* st.stop()) after three calls succeeded.
C8_Witness ==
    /\ variant = "app3"
    /\ pc = "done"
    /\ Len(calls) = 4
    /\ ~calls[4].ok
    /\ Shown(ErrorKinds) # {}

\* C9: if the extracted resume text or job-description text is blank after
\* stripping whitespace, the run ends with an error and no generation call;
\* an upload with an unrecognized extension extracts to empty text and so
\* ends the run the same way.
C9_BlankTextStopsRun ==
    LET blank(t) == t # Unset /\ \A i \in 1..Len(t) : t[i] \in {" ", "\n", "\t"}
        stopped == pc = "done" /\ calls = <<>> /\ Shown({"error"}) # {}
    IN /\ (pc # "ready" /\ (blank(resume_text) \/ blank(job_desc_text))) => stopped
       /\ (ExtractionReached /\ get_file_type(resume_file) = "") =>
              resume_text = <<>> /\ stopped
       /\ (ExtractionReached /\ get_file_type(job_desc_file) = "") =>
              job_desc_text \in {<<>>, Unset} /\ stopped

\* C9 witness: app2, a resume of readable, non-blank text under the name
\* a.rtf, a readable job description, the key present.
C9_Witness ==
    /\ variant = "app2"
    /\ ExtractionReached
    /\ get_file_type(resume_file) = ""
    /\ resume_file.kind = "utf8"
    /\ ~is_blank(resume_file.text)
    /\ resume_text = <<>>
    /\ ~is_blank(job_desc_text)
    /\ job_desc_text # Unset
    /\ Len(out) = 1

\* C10: app3 reports "Error reading resume" or "Error reading job
\* description" only if the extraction of that file raised an exception.
C10_ReadErrorOnlyIfRaised ==
    (variant = "app3" /\ Len(out) = 1 /\ out[1].el = "error") =>
        /\ out[1].label = "Error reading resume" =>
              extract_try3(resume_file, get_file_type(resume_file)).raised
        /\ out[1].label = "Error reading job description" =>
              extract_try3(job_desc_file, get_file_type(job_desc_file)).raised

====
